---- MODULE Spec2Model ----
(***************************************************************************)
(* Model of the language-tools plugin (src/__init__.py): the automatic     *)
(* language processor, the manual translate command, the admin command     *)
(* and the two JSON documents that mirror the in-memory settings.          *)
(*                                                                         *)
(* A text is a sequence of Unicode code points.  The event loop is         *)
(* cooperative: a handler runs without interruption up to its next await   *)
(* on the network, so each action below is one such uninterrupted run.     *)
(***************************************************************************)
EXTENDS Integers, Sequences, FiniteSets, TLC

VARIABLES
  started,         \* load_data has run (driver.on_startup)
  group_settings,  \* group id -> record of flags (a function on a subset of Modes)
  user_blacklist,  \* set of user ids
  settings_file,   \* group_settings.json: [exists, doc]
  blacklist_file,  \* user_blacklist.json: [exists, doc], doc is a JSON array
  task,            \* the message handler in flight (automatic or manual)
  admin_reply,     \* what the step just taken sent as an admin command's reply
  last_cmd         \* history: most recent enable/disable per <<group, mode>>

vars == <<started, group_settings, user_blacklist, settings_file,
          blacklist_file, task, admin_reply, last_cmd>>

----------------------------------------------------------------------------
(* Characters and texts *)

MaxTextLen == 200      \* _do_translation: len(text) > 200
ShortTextLen == 5      \* is_foreign_language: len(text) <= 5
MinNativeLen == 2      \* is_mostly_chinese: len(text) < 2
KanaLo == 12352        \* '぀'
KanaHi == 12543        \* 'ヿ'
CjkLo == 19968         \* '一'
CjkHi == 40869         \* '龥'

\* str.isspace(), which str.strip() and the regex class \S both use
IsSpace(c) ==
  c \in ({9, 10, 11, 12, 13, 28, 29, 30, 31, 32, 133, 160, 5760, 8232, 8233,
          8239, 8287, 12288} \cup (8192..8202))

\* str.isdigit() on the code points the texts below use: ASCII digits,
\* superscript digits and fullwidth digits
IsDigit(c) == c \in ((48..57) \cup {178, 179, 185} \cup (65296..65305))

IsKana(c) == KanaLo <= c /\ c <= KanaHi
IsCjk(c) == CjkLo <= c /\ c <= CjkHi

\* re.IGNORECASE folding of the letters the pattern names
Fold(c) == IF c \in 65..90 THEN c + 32 ELSE IF c = 383 THEN 115 ELSE c

RECURSIVE LStrip(_)
LStrip(s) == IF s # <<>> /\ IsSpace(Head(s)) THEN LStrip(Tail(s)) ELSE s

RECURSIVE RStrip(_)
RStrip(s) ==
  IF s # <<>> /\ IsSpace(s[Len(s)]) THEN RStrip(SubSeq(s, 1, Len(s) - 1)) ELSE s

\* str.strip()
Strip(s) == RStrip(LStrip(s))

\* sum(1 for char in text if ...), for the three tests the classifiers count
NonDigitCount(s) == Cardinality({i \in 1..Len(s) : ~IsDigit(s[i])})
NonCjkCount(s) == Cardinality({i \in 1..Len(s) : ~IsDigit(s[i]) /\ ~IsCjk(s[i])})
CjkCount(s) == Cardinality({i \in 1..Len(s) : IsCjk(s[i])})

\* lit matches s at position i, ignoring case
MatchesAt(s, i, lit) ==
  /\ i + Len(lit) - 1 <= Len(s)
  /\ \A k \in 1..Len(lit) : Fold(s[i + k - 1]) = lit[k]

UrlPrefixes ==
  { <<104, 116, 116, 112, 58, 47, 47>>,         \* http://
    <<104, 116, 116, 112, 115, 58, 47, 47>>,    \* https://
    <<119, 119, 119, 46>> }                     \* www.

\* Variant: the pattern compiled without re.IGNORECASE
URL_PATTERN_search_CaseSensitive(s) ==
  \E i \in 1..Len(s) : \E p \in UrlPrefixes :
    /\ i + Len(p) <= Len(s)
    /\ \A k \in 1..Len(p) : s[i + k - 1] = p[k]
    /\ ~IsSpace(s[i + Len(p)])

\* URL_PATTERN.search(text): (https?://|www\.)\S+ with re.IGNORECASE
URL_PATTERN_search(s) ==
  \E i \in 1..Len(s) : \E p \in UrlPrefixes :
    /\ MatchesAt(s, i, p)
    /\ i + Len(p) <= Len(s)
    /\ ~IsSpace(s[i + Len(p)])

\* converter.convert (OpenCC t2s) on the code points the texts below use:
\* U+8C93 becomes U+732B, every other one of them is already simplified
ConvertChar(c) == IF c = 36243 THEN 29483 ELSE c

converter_convert(s) == [i \in 1..Len(s) |-> ConvertChar(s[i])]

\* Variant: the kana test left out
is_foreign_language_NoKana(text) ==
  LET total_countable_chars == NonDigitCount(text)
      non_cjk_count == NonCjkCount(text)
  IN IF Len(text) <= ShortTextLen THEN FALSE
     ELSE IF total_countable_chars = 0 THEN FALSE
     ELSE 5 * non_cjk_count >= 4 * total_countable_chars

\* is_foreign_language: n/t >= 0.8 is 5n >= 4t (the double division is
\* exact enough at these lengths to agree with the rational comparison)
is_foreign_language(text) ==
  LET total_countable_chars == NonDigitCount(text)
      non_cjk_count == NonCjkCount(text)
  IN IF Len(text) <= ShortTextLen THEN FALSE
     ELSE IF \E i \in 1..Len(text) : IsKana(text[i]) THEN TRUE
     ELSE IF total_countable_chars = 0 THEN FALSE
     ELSE 5 * non_cjk_count >= 4 * total_countable_chars

\* is_mostly_chinese: c/len >= 0.6 is 5c >= 3 len
is_mostly_chinese(text) ==
  IF Len(text) < MinNativeLen THEN FALSE
  ELSE 5 * CjkCount(text) >= 3 * Len(text)

\* not_a_command_rule
not_a_command_rule(plaintext) ==
  LET t == Strip(plaintext) IN ~(t # <<>> /\ Head(t) \in {47, 33})

----------------------------------------------------------------------------
(* Inputs *)

Rep(c, n) == [i \in 1..n |-> c]

Ch == [a |-> 97, one |-> 49, sp |-> 32, ni |-> 20320, mao |-> 29483,
       trad |-> 36243, ne |-> 12397, slash |-> 47, bang |-> 33, x |-> 120]

Http == <<104, 116, 116, 112, 58, 47, 47>>                \* http://
HttpsUpper == <<72, 84, 84, 80, 83, 58, 47, 47>>          \* HTTPS://
Https == <<104, 116, 116, 112, 115, 58, 47, 47>>          \* https://
Www == <<119, 119, 119, 46>>                              \* www.

\* Plain texts of incoming messages: the classifiers' thresholds on both
\* sides, the URL guard's matches and near misses, the length limit
Texts ==
  { <<>>,
    Rep(Ch.sp, 2),
    <<Ch.ne, Ch.ne, Ch.mao>>,
    <<Ch.ne>> \o Rep(Ch.ni, ShortTextLen),
    Rep(Ch.a, ShortTextLen),
    Rep(Ch.a, ShortTextLen + 1),
    Rep(Ch.a, 8) \o Rep(Ch.ni, 2),
    Rep(Ch.a, 7) \o Rep(Ch.ni, 3),
    Rep(Ch.one, 10),
    Rep(Ch.a, 5) \o <<Ch.sp>> \o Rep(Ch.a, 5) \o Rep(Ch.one, 3),
    Rep(Ch.ni, 5),
    Rep(Ch.ni, 3) \o Rep(Ch.a, 2),
    Rep(Ch.ni, 2) \o Rep(Ch.a, 5),
    Rep(Ch.trad, 2),
    Rep(Ch.trad, 3) \o Rep(Ch.a, 3),
    <<Ch.trad>> \o Rep(Ch.a, 8),
    <<Ch.sp>> \o Rep(Ch.a, ShortTextLen) \o <<Ch.sp>>,
    Www \o <<Ch.a>>,
    Rep(Ch.a, 5) \o <<Ch.sp>> \o Http \o Rep(Ch.a, 3) \o <<Ch.sp>> \o Rep(Ch.a, 3),
    HttpsUpper \o <<Ch.x>>,
    Www \o <<Ch.sp>> \o Rep(Ch.a, 6),
    Https,
    Rep(Ch.a, MaxTextLen),
    Rep(Ch.a, MaxTextLen + 1),
    Rep(Ch.ni, MaxTextLen + 1),
    <<Ch.slash>> \o Rep(Ch.a, 6),
    <<Ch.sp, Ch.bang>> \o Rep(Ch.a, 6) }

\* Text of the message a manual command replies to; NoReply when it replies
\* to none
NoReply == <<-1>>
ReplyTexts == { NoReply, <<>>, Rep(Ch.a, 6), Www \o <<Ch.a>> }

Ids == {"1", "2"}            \* digit strings: group ids and user ids
Modes == {"standard", "cte"}
Direct == "direct"           \* origin of an event that is no GroupMessageEvent

\* What the HTTP round trip of _do_translation can end in
Responses == {"ok", "network_error", "bad_status", "bad_payload"}

----------------------------------------------------------------------------
(* Settings store *)

EmptyRec == [m \in {} |-> FALSE]    \* {}
EmptyMap == [g \in {} |-> EmptyRec] \* {}

\* d.get(key, {})
GetRec(d, key) == IF key \in DOMAIN d THEN d[key] ELSE EmptyRec

\* settings.get(mode): None, which is falsy, when the key is absent
GetFlag(settings, mode) == IF mode \in DOMAIN settings THEN settings[mode] ELSE FALSE

\* The orders list(a_set) can produce
Orders(S) == {f \in [1..Cardinality(S) -> S] : \A x \in S : \E i \in DOMAIN f : f[i] = x}

Range(f) == {f[i] : i \in DOMAIN f}

\* save_group_settings: json.dump of the whole dict
save_group_settings(gs) == settings_file' = [exists |-> TRUE, doc |-> gs]

\* Variant: the list written is the one from before the mutation
save_user_blacklist_Stale(bl) ==
  \E order \in Orders(user_blacklist) : blacklist_file' = [exists |-> TRUE, doc |-> order]

\* save_user_blacklist: json.dump(list(user_blacklist))
save_user_blacklist(bl) ==
  \E order \in Orders(bl) : blacklist_file' = [exists |-> TRUE, doc |-> order]

\* load_data, on well-formed documents
LoadedSettings(file) == IF file.exists THEN file.doc ELSE EmptyMap
LoadedBlacklist(file) == IF file.exists THEN Range(file.doc) ELSE {}

----------------------------------------------------------------------------
(* Messages sent to the chat, and the handler in flight *)

Msg(kind, body) == [kind |-> kind, body |-> body]

None == Msg("none", <<>>)
Truthy(result) == result.kind # "none"

\* plain and reply are the event as it came, settings0 and black0 the group's
\* record and the sender's blacklisting as the handler found them
IdleTask ==
  [kind |-> "none", pc |-> "idle", plain |-> <<>>, reply |-> <<>>,
   text |-> <<>>, origin |-> "", sender |-> "",
   target |-> "", calls |-> 0, requests |-> 0, converts |-> 0, resp |-> "none",
   sends |-> <<>>, settings0 |-> EmptyRec, black0 |-> FALSE]

\* What an admin command sends; std and cte are the two lines of a status
\* report, TRUE for open
AdminReply(kind, id, mode, std, cte) ==
  [kind |-> kind, id |-> id, mode |-> mode, std |-> std, cte |-> cte]

NoAdminReply == AdminReply("none", "", "", FALSE, FALSE)

\* _do_translation: len(text) > 200
TooLong(text) == Len(text) > MaxTextLen

\* _do_translation after its await: the formatted result, or None
TranslationResult(text, target_lang, resp) ==
  IF resp = "ok" THEN Msg("translation", text) ELSE None

\* What _do_translation returns without a request: the length message for an
\* over-long text, None for an empty one
ImmediateResult(text) == IF TooLong(text) THEN Msg("too_long", <<>>) ELSE None

\* A call of _do_translation(text, target_lang) by the handler t: it returns
\* at once on an over-long or empty text, else it awaits the HTTP response
CallTranslation(t, target_lang) ==
  LET c == [t EXCEPT !.target = target_lang, !.calls = @ + 1] IN
  IF TooLong(c.text) \/ c.text = <<>> THEN [c EXCEPT !.pc = "returned"]
  ELSE [c EXCEPT !.pc = "await", !.requests = @ + 1]

\* if result: await language_processor.send(result)
SendIfResult(t, result) ==
  [t EXCEPT !.pc = "done",
            !.sends = IF Truthy(result) THEN Append(@, result) ELSE @]

\* result = await _do_translation(original_text, target_lang), up to the
\* await; if it returned at once, if result: send(result)
AutoTranslate(t, target_lang) ==
  LET c == CallTranslation(t, target_lang) IN
  IF c.pc = "await" THEN c ELSE SendIfResult(c, ImmediateResult(c.text))

\* converted_text = converter.convert(original_text); send it if it differs
ConvertAndSend(t) ==
  LET converted_text == converter_convert(t.text) IN
  [t EXCEPT !.pc = "done", !.converts = @ + 1,
            !.sends = IF t.text # converted_text
                      THEN Append(@, Msg("converted", converted_text)) ELSE @]

\* Variant: event.user_id, an int, looked up without str() in a set of strings
Blacklisted_IntId(event) == FALSE

\* str(event.user_id) in user_blacklist
Blacklisted(event) == event.sender \in user_blacklist

\* The direct-message branch of handle_language_processing
DirectDispatch(t) ==
  IF is_foreign_language(t.text)
  THEN AutoTranslate(t, "auto")
  ELSE ConvertAndSend(t)

\* Variant: the last branch a plain else, conversion not gated on standard
GroupDispatch_ConvertUngated(t, settings) ==
  IF DOMAIN settings = {} THEN t
  ELSE IF GetFlag(settings, "standard") /\ is_foreign_language(t.text)
    THEN AutoTranslate(t, "auto")
  ELSE IF GetFlag(settings, "cte") /\ is_mostly_chinese(t.text)
    THEN AutoTranslate(t, "en")
  ELSE ConvertAndSend(t)

\* The group branch of handle_language_processing
GroupDispatch(t, settings) ==
  IF DOMAIN settings = {} THEN t
  ELSE IF GetFlag(settings, "standard") /\ is_foreign_language(t.text)
    THEN AutoTranslate(t, "auto")
  ELSE IF GetFlag(settings, "cte") /\ is_mostly_chinese(t.text)
    THEN AutoTranslate(t, "en")
  ELSE IF GetFlag(settings, "standard") THEN ConvertAndSend(t)
  ELSE t

\* handle_language_processing from its entry to its first await or return
handle_language_processing(event) ==
  LET original_text == Strip(event.plaintext)
      isGroup == event.origin # Direct
      settings == IF isGroup THEN GetRec(group_settings, event.origin) ELSE EmptyRec
      t == [IdleTask EXCEPT !.kind = "auto", !.pc = "done",
                            !.plain = event.plaintext, !.reply = NoReply,
                            !.text = original_text,
                            !.origin = event.origin, !.sender = event.sender,
                            !.settings0 = settings,
                            !.black0 = event.sender \in user_blacklist]
  IN IF Blacklisted(event) THEN t
     ELSE IF original_text = <<>> THEN t
     ELSE IF URL_PATTERN_search(original_text) THEN t
     ELSE IF ~isGroup THEN DirectDispatch(t)
     ELSE GroupDispatch(t, settings)

\* Variant: the blacklist looked up again after the await
resume_language_processing_Rechecks(t, resp) ==
  IF t.sender \in user_blacklist THEN [t EXCEPT !.pc = "done", !.resp = resp]
  ELSE SendIfResult([t EXCEPT !.resp = resp], TranslationResult(t.text, t.target, resp))

\* Variant: a failed translation falls through to the script conversion
resume_language_processing_FallsThrough(t, resp) ==
  IF resp = "ok"
  THEN SendIfResult([t EXCEPT !.resp = resp], TranslationResult(t.text, t.target, resp))
  ELSE ConvertAndSend([t EXCEPT !.resp = resp])

\* handle_language_processing from the response of its request to its return
resume_language_processing(t, resp) ==
  SendIfResult([t EXCEPT !.resp = resp], TranslationResult(t.text, t.target, resp))

\* if result: send(result) else: finish(failure)
ManualReply(t, result) ==
  [t EXCEPT !.pc = "done",
            !.sends = Append(@, IF Truthy(result) THEN result
                                ELSE Msg("failure", <<>>))]

\* Variant: the replied-to text used only when the argument is empty
EffectiveText_PrefersArgs(event) ==
  IF Strip(event.plaintext) = <<>> /\ event.reply # NoReply
  THEN Strip(event.reply) ELSE Strip(event.plaintext)

\* text = args...strip(); if event.reply: text = event.reply...strip()
EffectiveText(event) ==
  IF event.reply # NoReply THEN Strip(event.reply) ELSE Strip(event.plaintext)

\* handle_manual_translation from its entry to its first await or return
handle_manual_translation(event) ==
  LET text == EffectiveText(event)
      t == [IdleTask EXCEPT !.kind = "manual", !.pc = "done",
                            !.plain = event.plaintext, !.reply = event.reply,
                            !.text = text,
                            !.origin = event.origin, !.sender = event.sender]
  IN IF text = <<>> THEN [t EXCEPT !.sends = Append(@, Msg("usage", <<>>))]
     ELSE IF URL_PATTERN_search(text)
       THEN [t EXCEPT !.sends = Append(@, Msg("refusal", <<>>))]
     ELSE LET c == CallTranslation(t, "auto") IN
          IF c.pc = "await" THEN c ELSE ManualReply(c, ImmediateResult(c.text))

\* handle_manual_translation from the response of its request to its return
resume_manual_translation(t, resp) ==
  ManualReply([t EXCEPT !.resp = resp], TranslationResult(t.text, t.target, resp))

----------------------------------------------------------------------------
(* Admin command *)

Commands == {"enable", "disable", "status", "list_groups", "add_user",
             "remove_user", "list_users"}

\* str.lower() on the words the arguments are drawn from
str_lower(w) ==
  CASE w = "Enable" -> "enable"
    [] w = "Standard" -> "standard"
    [] OTHER -> w

\* str.isdigit() on the words the arguments are drawn from
str_isdigit(w) == w \in Ids

NoneStr == ""    \* None; no word of an argument list is empty

\* Variant: group_settings[target_id] = {mode: value}, the other flag dropped
SetFlag_Overwrites(gs, target_id, mode, value) ==
  [g \in DOMAIN gs \cup {target_id} |->
     IF g = target_id THEN [m \in {mode} |-> value] ELSE gs[g]]

\* settings = group_settings.setdefault(target_id, {}); settings[mode] = value
SetFlag(gs, target_id, mode, value) ==
  LET settings == GetRec(gs, target_id) IN
  [g \in DOMAIN gs \cup {target_id} |->
     IF g = target_id
     THEN [m \in DOMAIN settings \cup {mode} |-> IF m = mode THEN value ELSE settings[m]]
     ELSE gs[g]]

\* The report of the status command for group target_id
StatusReply(target_id) ==
  LET s == GetRec(group_settings, target_id) IN
  AdminReply("status", target_id, "", GetFlag(s, "standard"), GetFlag(s, "cte"))

handle_lang_tools_admin(arg_list) ==
  IF Len(arg_list) < 1
  THEN /\ admin_reply' = AdminReply("help", "", "", FALSE, FALSE)
       /\ UNCHANGED <<group_settings, user_blacklist, settings_file, blacklist_file, last_cmd>>
  ELSE
  LET command == str_lower(Head(arg_list))
      params == Tail(arg_list)
      mode == IF params # <<>> THEN str_lower(params[1]) ELSE NoneStr
      target_id ==
        IF Len(params) > 1 /\ str_isdigit(params[2]) THEN params[2]
        ELSE IF Len(params) = 1 /\ str_isdigit(params[1]) THEN params[1]
        ELSE NoneStr
  IN
  IF command \in {"enable", "disable"} /\ mode \in Modes /\ target_id # NoneStr
  THEN /\ group_settings' = SetFlag(group_settings, target_id, mode, command = "enable")
       /\ save_group_settings(group_settings')
       /\ admin_reply' = AdminReply(IF command = "enable" THEN "enabled" ELSE "disabled",
                                    target_id, mode, FALSE, FALSE)
       /\ last_cmd' = [last_cmd EXCEPT ![target_id][mode] = command]
       /\ UNCHANGED <<user_blacklist, blacklist_file>>
  ELSE IF command = "status" /\ target_id # NoneStr
  THEN /\ admin_reply' = StatusReply(target_id)
       /\ UNCHANGED <<group_settings, user_blacklist, settings_file, blacklist_file, last_cmd>>
  ELSE IF command = "list_groups"
  THEN /\ admin_reply' = AdminReply(IF DOMAIN group_settings = {} THEN "no_groups" ELSE "groups",
                                    "", "", FALSE, FALSE)
       /\ UNCHANGED <<group_settings, user_blacklist, settings_file, blacklist_file, last_cmd>>
  ELSE IF command = "add_user" /\ target_id # NoneStr
  THEN IF target_id \in user_blacklist
       THEN /\ admin_reply' = AdminReply("already_member", target_id, "", FALSE, FALSE)
            /\ UNCHANGED <<group_settings, user_blacklist, settings_file, blacklist_file, last_cmd>>
       ELSE /\ user_blacklist' = user_blacklist \cup {target_id}
            /\ save_user_blacklist(user_blacklist')
            /\ admin_reply' = AdminReply("added", target_id, "", FALSE, FALSE)
            /\ UNCHANGED <<group_settings, settings_file, last_cmd>>
  ELSE IF command = "remove_user" /\ target_id # NoneStr
  THEN IF target_id \notin user_blacklist
       THEN /\ admin_reply' = AdminReply("not_member", target_id, "", FALSE, FALSE)
            /\ UNCHANGED <<group_settings, user_blacklist, settings_file, blacklist_file, last_cmd>>
       ELSE /\ user_blacklist' = user_blacklist \ {target_id}
            /\ save_user_blacklist(user_blacklist')
            /\ admin_reply' = AdminReply("removed", target_id, "", FALSE, FALSE)
            /\ UNCHANGED <<group_settings, settings_file, last_cmd>>
  ELSE IF command = "list_users"
  THEN /\ admin_reply' = AdminReply(IF user_blacklist = {} THEN "no_users" ELSE "users",
                                    "", "", FALSE, FALSE)
       /\ UNCHANGED <<group_settings, user_blacklist, settings_file, blacklist_file, last_cmd>>
  ELSE /\ admin_reply' = AdminReply("error", "", "", FALSE, FALSE)
       /\ UNCHANGED <<group_settings, user_blacklist, settings_file, blacklist_file, last_cmd>>

----------------------------------------------------------------------------
(* State machine *)

MaxParams == 2    \* words after the subcommand of an admin command

Absent == [exists |-> FALSE, doc |-> <<>>]

\* The documents a start can find: none, or well-formed ones in which no
\* flag is set
InitSettingsFiles ==
  {Absent, [exists |-> TRUE, doc |-> EmptyMap], [exists |-> TRUE, doc |-> ("1" :> EmptyRec)]}

InitBlacklistFiles == {Absent, [exists |-> TRUE, doc |-> <<"2", "2">>]}

Init ==
  /\ started = FALSE
  /\ group_settings = EmptyMap
  /\ user_blacklist = {}
  /\ settings_file \in InitSettingsFiles
  /\ blacklist_file \in InitBlacklistFiles
  /\ task = IdleTask
  /\ admin_reply = NoAdminReply
  /\ last_cmd = [g \in Ids |-> [m \in Modes |-> "none"]]

\* driver.on_startup: load_data
Startup ==
  /\ ~started
  /\ started' = TRUE
  /\ group_settings' = LoadedSettings(settings_file)
  /\ user_blacklist' = LoadedBlacklist(blacklist_file)
  /\ UNCHANGED <<settings_file, blacklist_file, task, admin_reply, last_cmd>>

\* The process stops: the module state is gone, the files stay
Restart ==
  /\ started
  /\ started' = FALSE
  /\ group_settings' = EmptyMap
  /\ user_blacklist' = {}
  /\ task' = IdleTask
  /\ admin_reply' = NoAdminReply
  /\ UNCHANGED <<settings_file, blacklist_file, last_cmd>>

\* A message that passes not_a_command_rule reaches language_processor
LPHandle(event) ==
  /\ started /\ task.pc = "idle"
  /\ not_a_command_rule(event.plaintext)
  /\ task' = handle_language_processing(event)
  /\ admin_reply' = NoAdminReply
  /\ UNCHANGED <<started, group_settings, user_blacklist, settings_file, blacklist_file, last_cmd>>

\* The HTTP request of the automatic processor ends
LPResume(resp) ==
  /\ task.kind = "auto" /\ task.pc = "await"
  /\ task' = resume_language_processing(task, resp)
  /\ admin_reply' = NoAdminReply
  /\ UNCHANGED <<started, group_settings, user_blacklist, settings_file, blacklist_file, last_cmd>>

\* The manual translate command
MTHandle(event) ==
  /\ started /\ task.pc = "idle"
  /\ task' = handle_manual_translation(event)
  /\ admin_reply' = NoAdminReply
  /\ UNCHANGED <<started, group_settings, user_blacklist, settings_file, blacklist_file, last_cmd>>

\* The HTTP request of the manual command ends
MTResume(resp) ==
  /\ task.kind = "manual" /\ task.pc = "await"
  /\ task' = resume_manual_translation(task, resp)
  /\ admin_reply' = NoAdminReply
  /\ UNCHANGED <<started, group_settings, user_blacklist, settings_file, blacklist_file, last_cmd>>

\* The handler that returned is forgotten
Retire ==
  /\ task.pc = "done"
  /\ task' = IdleTask
  /\ admin_reply' = NoAdminReply
  /\ UNCHANGED <<started, group_settings, user_blacklist, settings_file, blacklist_file, last_cmd>>

\* The admin command; the handler in flight, if any, stays suspended
Admin(arg_list) ==
  /\ started /\ task.pc # "done"
  /\ handle_lang_tools_admin(arg_list)
  /\ UNCHANGED <<started, task>>

AutoEvents == [plaintext : Texts, origin : {Direct, "1"}, sender : Ids]

\* Arguments of the manual command: empty, blank, with and without a link,
\* at the length limit and over it
ManualArgs ==
  { <<>>, Rep(Ch.sp, 2), Rep(Ch.ni, 5), <<Ch.sp>> \o Rep(Ch.a, ShortTextLen) \o <<Ch.sp>>,
    HttpsUpper \o <<Ch.x>>, Www \o <<Ch.sp>> \o Rep(Ch.a, 6),
    Rep(Ch.a, MaxTextLen), Rep(Ch.a, MaxTextLen + 1) }

ManualEvents == [plaintext : ManualArgs, reply : ReplyTexts, origin : {Direct}, sender : {"2"}]

\* The commands on group 1 and user 1: the four that mutate, the three that
\* report, one without its group id, and the bare command
DispatchArgs ==
  {<<c, m, "1">> : c \in {"enable", "disable"}, m \in Modes}
    \cup {<<c, "1">> : c \in {"add_user", "remove_user", "status"}}
    \cup {<<"list_groups">>, <<"list_users">>, <<"Enable", "Standard">>, <<>>}

Next ==
  \/ Startup
  \/ \E e \in AutoEvents : LPHandle(e)
  \/ \E r \in Responses : LPResume(r)
  \/ \E e \in ManualEvents : MTHandle(e)
  \/ \E r \in Responses : MTResume(r)
  \/ Retire
  \/ \E a \in DispatchArgs : Admin(a)
  \/ Restart

Spec == Init /\ [][Next]_vars

\* Every argument list of at most 1 + MaxParams words
Words == {"standard", "cte", "1", "2"}

RECURSIVE SeqsUpTo(_, _)
SeqsUpTo(S, n) ==
  IF n = 0 THEN {<<>>}
  ELSE LET shorter == SeqsUpTo(S, n - 1) IN
       shorter \cup {Append(q, x) : q \in shorter, x \in S}

AdminArgs ==
  {<<>>} \cup {<<c>> \o ps : c \in Commands \cup {"Enable", "bogus"},
                              ps \in SeqsUpTo(Words, MaxParams)}

NextAdmin ==
  \/ Startup
  \/ Restart
  \/ \E a \in AdminArgs : Admin(a)

SpecAdmin == Init /\ [][NextAdmin]_vars

----------------------------------------------------------------------------
(* Properties *)

Auto == task.kind = "auto"
Manual == task.kind = "manual"

\* The handler returned without a call, a request, a conversion or a send
NoAction(t) ==
  t.pc = "done" /\ t.calls = 0 /\ t.requests = 0 /\ t.converts = 0 /\ t.sends = <<>>

\* A URL-guard match, as the specification words it: http://, https:// or
\* www., in any case, followed by at least one non-whitespace character
AsciiLower(c) == IF c \in 65..90 THEN c + 32 ELSE c
HasUrl(s) ==
  \E i \in 1..Len(s) : \E n \in {Len(Http), Len(Https), Len(Www)} :
    /\ i + n <= Len(s)
    /\ [k \in 1..n |-> AsciiLower(s[i + k - 1])] \in {Http, Https, Www}
    /\ ~IsSpace(s[i + n])

HasKana(s) == \E i \in 1..Len(s) : s[i] \in 12352..12543

\* The text an event carries for its handler, as it came
EventText(t) == IF t.reply # NoReply THEN t.reply ELSE t.plain

\* The blacklist, empty-text and URL guards let the message through
PassedGuards(t) == ~t.black0 /\ Strip(t.plain) # <<>> /\ ~HasUrl(t.plain)

FlagSet(settings, m) == m \in DOMAIN settings /\ settings[m]

\* The priority table of the group branch: <<action, target language>>
PriorityAction(settings, text) ==
  IF FlagSet(settings, "standard") /\ is_foreign_language(text) THEN <<"translate", "auto">>
  ELSE IF FlagSet(settings, "cte") /\ is_mostly_chinese(text) THEN <<"translate", "en">>
  ELSE IF FlagSet(settings, "standard") THEN <<"convert", "">>
  ELSE <<"none", "">>

ActionTaken(t) ==
  IF t.calls > 0 THEN <<"translate", t.target>>
  ELSE IF t.converts > 0 THEN <<"convert", "">>
  ELSE <<"none", "">>

\* C1: a group message that passes the guards gets exactly the action of the
\* priority table for the record its group had: translate to the default
\* target, translate to "en", convert (sent only if the output differs), or
\* nothing; without the standard flag no converted text is ever sent
C1_GroupPriorityTable ==
  (Auto /\ task.origin # Direct /\ PassedGuards(task)) =>
    /\ ActionTaken(task) = PriorityAction(task.settings0, task.text)
    /\ ActionTaken(task)[1] = "convert" =>
         task.sends = IF converter_convert(task.text) # task.text
                      THEN <<Msg("converted", converter_convert(task.text))>>
                      ELSE <<>>
    /\ ActionTaken(task)[1] = "none" => NoAction(task)
    /\ ~FlagSet(task.settings0, "standard") =>
         \A i \in 1..Len(task.sends) : task.sends[i].kind # "converted"

\* C1 witness: cte set, standard not set, a traditional-script text that is
\* not mostly native: nothing is done although conversion would change it
C1_Witness ==
  /\ Auto /\ task.origin = "1" /\ PassedGuards(task)
  /\ FlagSet(task.settings0, "cte") /\ ~FlagSet(task.settings0, "standard")
  /\ converter_convert(task.text) # task.text
  /\ NoAction(task)

\* C2: whenever the automatic processor has selected a translate action,
\* whatever it sends is the formatted result of a successful remote
\* translation, and it sends nothing when no translation succeeded
C2_AutoSendsOnlyTranslations ==
  (Auto /\ task.calls > 0) =>
    /\ \A i \in 1..Len(task.sends) : task.sends[i].kind = "translation"
    /\ task.sends # <<>> => task.resp = "ok"

\* C3: a message dispatched while its sender is in the blacklist makes the
\* automatic processor return without any call, conversion or send
C3_BlacklistedSenderNoAction ==
  [][(task.pc = "idle" /\ task'.kind = "auto" /\ task'.sender \in user_blacklist)
       => NoAction(task')]_vars

\* C3 witness: user 1, blacklisted by add_user, sends foreign text to a group
\* with standard set, and nothing happens
C3_Witness ==
  /\ Auto /\ task.sender = "1" /\ task.sender \in user_blacklist /\ task.black0
  /\ task.origin = "1" /\ FlagSet(task.settings0, "standard")
  /\ is_foreign_language(task.text) /\ ~HasUrl(task.plain)
  /\ NoAction(task)

\* C4: on a text with a URL-guard match neither handler calls the
\* Translation Client or the Script Converter: the automatic processor does
\* nothing, the manual command replies with the refusal message only
C4_UrlNeverProcessed ==
  (task.kind # "none" /\ HasUrl(EventText(task))) =>
    /\ task.pc = "done" /\ task.calls = 0 /\ task.requests = 0 /\ task.converts = 0
    /\ task.sends = IF Manual THEN <<Msg("refusal", <<>>)>> ELSE <<>>

\* C4 witness: an upper-case link in a direct message that is foreign text,
\* from a sender who is not blacklisted
C4_Witness ==
  /\ Auto /\ task.origin = Direct /\ ~task.black0
  /\ HasUrl(task.plain) /\ ~URL_PATTERN_search_CaseSensitive(task.plain)
  /\ is_foreign_language(task.text)
  /\ NoAction(task)

\* The automatic processor classified the text with is_foreign_language
Classified(t) == t.kind = "auto" /\ t.origin = Direct /\ PassedGuards(t)

\* C5 as stated: any text with a kana character is foreign, whatever its
\* length
C5_KanaAlwaysForeign ==
  (Classified(task) /\ HasKana(task.text)) =>
    is_foreign_language(task.text) /\ task.calls = 1

\* C5 amended: a text of more than 5 characters with a kana character is
\* foreign, whatever its ratio of non-CJK characters
C5_LongKanaForeign ==
  (Classified(task) /\ HasKana(task.text) /\ Len(task.text) > ShortTextLen) =>
    is_foreign_language(task.text) /\ task.calls = 1

\* C5 witness: one kana character among five ideographs is translated
C5_Witness ==
  /\ Classified(task) /\ HasKana(task.text)
  /\ 5 * CjkCount(task.text) >= 4 * Len(task.text)
  /\ task.calls = 1 /\ task.target = "auto"

\* C6: a status report shows a mode of its group open exactly when the most
\* recent enable/disable command for that group and mode was an enable
\* (closed when there was none), so no command changes what is reported for
\* another mode or another group
C6_StatusFollowsLastCommand ==
  admin_reply.kind = "status" =>
    /\ admin_reply.std = (last_cmd[admin_reply.id]["standard"] = "enable")
    /\ admin_reply.cte = (last_cmd[admin_reply.id]["cte"] = "enable")

\* C6 witness: standard enabled in group 1 and never cte, while cte is
\* enabled in group 2: the report for group 1 is standard open, cte closed
C6_Witness ==
  /\ admin_reply.kind = "status" /\ admin_reply.id = "1"
  /\ admin_reply.std /\ ~admin_reply.cte
  /\ last_cmd["1"]["cte"] = "none" /\ last_cmd["2"]["cte"] = "enable"
  /\ last_cmd["2"]["standard"] = "disable"

\* The one reply the manual command owes: by the stripped effective text,
\* then by the outcome of the request
ManualReplyKind(t) ==
  LET text == Strip(EventText(t)) IN
  IF text = <<>> THEN "usage"
  ELSE IF HasUrl(text) THEN "refusal"
  ELSE IF Len(text) > MaxTextLen THEN "too_long"
  ELSE IF t.resp = "ok" THEN "translation"
  ELSE "failure"

\* C7: the manual command ends with exactly one reply, chosen in the order
\* usage, refusal, too long, result, failure; it makes a request in the last
\* two cases only, and once
C7_ManualOneReply ==
  Manual =>
    /\ task.pc = "done" =>
         /\ Len(task.sends) = 1
         /\ task.sends[1].kind = ManualReplyKind(task)
         /\ task.sends[1].kind = "translation" => task.sends[1].body = Strip(EventText(task))
         /\ task.requests = IF ManualReplyKind(task) \in {"translation", "failure"} THEN 1 ELSE 0
    /\ task.pc = "await" =>
         /\ task.sends = <<>> /\ task.requests = 1
         /\ ManualReplyKind(task) \in {"translation", "failure"}

\* C7 witness: a command with an argument, replying to a message without
\* text, gets the usage message and makes no request
C7_Witness ==
  /\ Manual /\ task.pc = "done"
  /\ task.reply = <<>> /\ Strip(task.plain) # <<>>
  /\ task.sends = <<Msg("usage", <<>>)>> /\ task.requests = 0

\* C8: an automatic invocation that made its request ends as the settings
\* and blacklist it found at its start dictate, whatever admin commands ran
\* while it was suspended: same action, same target, and it sends the result
\* exactly when the request succeeded
C8_InFlightKeepsStartDecision ==
  (Auto /\ task.requests > 0) =>
    /\ ~task.black0
    /\ IF task.origin = Direct
       THEN is_foreign_language(task.text) /\ task.target = "auto"
       ELSE <<"translate", task.target>> = PriorityAction(task.settings0, task.text)
    /\ task.pc = "await" => task.sends = <<>>
    /\ task.pc = "done" =>
         task.sends = IF task.resp = "ok" THEN <<Msg("translation", task.text)>> ELSE <<>>

\* C8 witness: the sender was blacklisted and the group's flags were changed
\* during the request, and the translation was sent all the same
C8_Witness ==
  /\ Auto /\ task.pc = "done" /\ task.requests = 1 /\ task.resp = "ok"
  /\ task.origin = "1" /\ task.target = "en"
  /\ task.sender \in user_blacklist
  /\ ~FlagSet(GetRec(group_settings, task.origin), "cte")
  /\ task.sends = <<Msg("translation", task.text)>>

\* Replies of the admin commands that mutate nothing
NonMutatingReplies ==
  {"help", "status", "no_groups", "groups", "already_member", "not_member",
   "no_users", "users", "error"}

\* The documents on disk hold what is in memory
FilesMirrorMemory ==
  /\ LoadedSettings(settings_file) = group_settings
  /\ LoadedBlacklist(blacklist_file) = user_blacklist

\* C9: once the state is loaded, wherever another handler can run the
\* settings document equals the in-memory settings and the blacklist
\* document holds exactly the in-memory members (a missing document counting
\* as an empty one), and a command that mutates nothing leaves both files
\* as they were
C9_FilesFollowMemory ==
  /\ [](started => FilesMirrorMemory)
  /\ [][admin_reply'.kind \in NonMutatingReplies
          => UNCHANGED <<settings_file, blacklist_file>>]_vars

\* C9 witness: while a request is in flight, add_user has just written a
\* blacklist of two members and the settings document holds a set flag
C9_Witness ==
  /\ started /\ task.pc = "await"
  /\ admin_reply.kind = "added"
  /\ blacklist_file.exists /\ Len(blacklist_file.doc) = 2
  /\ settings_file.exists /\ FlagSet(GetRec(settings_file.doc, "1"), "cte")
  /\ FilesMirrorMemory

\* C10: the automatic processor takes at most one action per message: at
\* most one call, one request and one send, never a translation and a
\* conversion, and after a failed request neither a conversion nor a send
C10_AtMostOneAction ==
  Auto =>
    /\ task.calls + task.converts <= 1
    /\ task.requests <= task.calls
    /\ Len(task.sends) <= 1
    /\ task.calls = 1 => \A i \in 1..Len(task.sends) : task.sends[i].kind # "converted"
    /\ (task.pc = "done" /\ task.requests = 1 /\ task.resp # "ok") =>
         task.converts = 0 /\ task.sends = <<>>

\* C10 witness: the request for a foreign text with a traditional character
\* failed, and nothing was converted or sent
C10_Witness ==
  /\ Auto /\ task.pc = "done" /\ task.requests = 1 /\ task.resp = "network_error"
  /\ converter_convert(task.text) # task.text
  /\ task.converts = 0 /\ task.sends = <<>>

====
